---- MODULE Spec2Model ----
(***************************************************************************)
(* Collection meta operations of the storage content manager               *)
(* (lib/storage/src/content_manager/collection_meta_ops.rs).               *)
(*                                                                         *)
(* Four specifications share the module:                                   *)
(*   Spec         the deferred slots of CreateCollectionOperation and      *)
(*                UpdateCollectionOperation, driven by their methods;      *)
(*   SpecCodec    the serde encoding of CollectionMetaOperations;          *)
(*   SpecAlias    the decoding of the untagged AliasOperations;            *)
(*   SpecReplica  the applier's handling of SetShardReplicaState.          *)
(***************************************************************************)
EXTENDS Integers, Sequences, FiniteSets, TLC

VARIABLES
    create_op,      \* the CreateCollectionOperation instance
    update_op,      \* the UpdateCollectionOperation instance
    calls,          \* history of the method calls made on the two instances
    sent,           \* Option<CollectionMetaOperations>: the value last encoded
    wire,           \* Option<Json>: the encoded payload in flight
    received,       \* Option<Result<CollectionMetaOperations>>: the decoder's answer
    alias_in,       \* Option<Json>: an alias action payload handed to the decoder
    alias_out,      \* Option<Result<AliasOperations>>: the decoder's answer to it
    replicas,       \* the applier's replica states, by <<collection, shard, peer>>
    outcome         \* Option<outcome of the last SetShardReplicaState applied>

vars == <<create_op, update_op, calls, sent, wire, received, alias_in, alias_out,
          replicas, outcome>>

opsVars == <<create_op, update_op, calls>>
codecVars == <<sent, wire, received, alias_in, alias_out>>
replicaVars == <<replicas, outcome>>

(***************************************************************************)
(* Bounds                                                                  *)
(***************************************************************************)
MaxCalls == 4

(***************************************************************************)
(* Option<T>: None is the empty sequence, Some(x) the one-element one.     *)
(***************************************************************************)
None == <<>>
Some(x) == <<x>>
IsSome(o) == Len(o) = 1
Unwrap(o) == o[1]

(***************************************************************************)
(* Value universes                                                         *)
(***************************************************************************)
Names == {"docs", "logs"}

\* ShardDistributionProposal: a placement of shards on peers.
Proposals ==
    { [distribution |-> << [shard_id |-> 0, peers |-> <<1, 2>>],
                           [shard_id |-> 1, peers |-> <<2, 1>>] >>],
      [distribution |-> << [shard_id |-> 0, peers |-> <<2>>],
                           [shard_id |-> 1, peers |-> <<1>>] >>] }

\* replica_set::Change is the removal of the replica of a shard from a peer.
\* The lists of changes handed to set_shard_replica_changes: the empty list,
\* a one-element list and the two-element lists in both orders.
ChangeLists ==
    { <<>>,
      << [shard_id |-> 0, peer_id |-> 1] >>,
      << [shard_id |-> 0, peer_id |-> 1], [shard_id |-> 0, peer_id |-> 2] >>,
      << [shard_id |-> 0, peer_id |-> 2], [shard_id |-> 0, peer_id |-> 1] >> }

\* CreateCollection parameters.  The configurations of the collection and
\* segment crates (VectorsConfig, HnswConfigDiff, WalConfigDiff,
\* OptimizersConfigDiff, QuantizationConfig, CollectionParamsDiff) are opaque
\* values, named by a string.
CreateCollection_minimal ==
    [vectors |-> "v4", shard_number |-> None, replication_factor |-> None,
     write_consistency_factor |-> None, on_disk_payload |-> None,
     hnsw_config |-> None, wal_config |-> None, optimizers_config |-> None,
     init_from |-> None, quantization_config |-> None]
CreateCollections ==
    { CreateCollection_minimal,
      [vectors |-> "v4", shard_number |-> Some(4), replication_factor |-> Some(2),
       write_consistency_factor |-> Some(1), on_disk_payload |-> Some(TRUE),
       hnsw_config |-> Some("hnsw"), wal_config |-> None,
       optimizers_config |-> Some("opt"),
       init_from |-> Some([collection |-> "logs"]),
       quantization_config |-> Some("scalar")] }

\* UpdateCollection parameters (new_empty's are the first).
UpdateCollection_empty == [optimizers_config |-> None, params |-> None]
UpdateCollections ==
    { UpdateCollection_empty,
      [optimizers_config |-> Some("opt"), params |-> Some("rf2")] }

(***************************************************************************)
(* CreateCollectionOperation                                               *)
(***************************************************************************)
CreateCollectionOperation_new(collection_name, create_collection) ==
    [collection_name |-> collection_name,
     create_collection |-> create_collection,
     distribution |-> None]

\* Variant: is_none in place of is_some.
is_distribution_set_negated(self) == ~ IsSome(self.distribution)

is_distribution_set(self) == IsSome(self.distribution)

\* Variant: the slot is cloned, not taken.
take_distribution_clone(self) ==
    [self |-> self, result |-> self.distribution]

\* Option::take: the slot's value is returned and the slot left empty.
take_distribution(self) ==
    [self |-> [self EXCEPT !.distribution = None], result |-> self.distribution]

set_distribution(self, distribution) ==
    [self EXCEPT !.distribution = Some(distribution)]

(***************************************************************************)
(* UpdateCollectionOperation                                               *)
(***************************************************************************)
UpdateCollectionOperation_new_empty(collection_name) ==
    [collection_name |-> collection_name,
     update_collection |-> UpdateCollection_empty,
     shard_replica_changes |-> None]

UpdateCollectionOperation_new(collection_name, update_collection) ==
    [collection_name |-> collection_name,
     update_collection |-> update_collection,
     shard_replica_changes |-> None]

have_replica_changes(self) ==
    IF IsSome(self.shard_replica_changes)
    THEN Len(Unwrap(self.shard_replica_changes)) # 0
    ELSE FALSE

\* Variant: the slot is cloned, not taken.
take_shard_replica_changes_clone(self) ==
    [self |-> self, result |-> self.shard_replica_changes]

\* Variant: the whole operation is reset to new_empty's, not the slot alone.
take_shard_replica_changes_reset(self) ==
    [self |-> UpdateCollectionOperation_new_empty(self.collection_name),
     result |-> self.shard_replica_changes]

take_shard_replica_changes(self) ==
    [self |-> [self EXCEPT !.shard_replica_changes = None],
     result |-> self.shard_replica_changes]

\* Variant: the empty list is stored like any other.
set_shard_replica_changes_raw(self, changes) ==
    [self EXCEPT !.shard_replica_changes = Some(changes)]

set_shard_replica_changes(self, changes) ==
    IF Len(changes) = 0
    THEN [self EXCEPT !.shard_replica_changes = None]
    ELSE [self EXCEPT !.shard_replica_changes = Some(changes)]

(***************************************************************************)
(* The calls made on the two instances.  Every call is recorded with its   *)
(* argument (arg, an Option), the Option it returned (out) and the boolean *)
(* it returned (flag).                                                     *)
(***************************************************************************)
Call(op, arg, out, flag) == [op |-> op, arg |-> arg, out |-> out, flag |-> flag]

CallSetDistribution(d) ==
    /\ Len(calls) < MaxCalls
    /\ create_op' = set_distribution(create_op, d)
    /\ calls' = Append(calls, Call("set_distribution", Some(d), None, FALSE))
    /\ UNCHANGED <<update_op, codecVars, replicaVars>>

CallTakeDistribution ==
    /\ Len(calls) < MaxCalls
    /\ create_op' = take_distribution(create_op).self
    /\ calls' = Append(calls, Call("take_distribution", None,
                                   take_distribution(create_op).result, FALSE))
    /\ UNCHANGED <<update_op, codecVars, replicaVars>>

CallIsDistributionSet ==
    /\ Len(calls) < MaxCalls
    /\ calls' = Append(calls, Call("is_distribution_set", None, None,
                                   is_distribution_set(create_op)))
    /\ UNCHANGED <<create_op, update_op, codecVars, replicaVars>>

CallSetShardReplicaChanges(changes) ==
    /\ Len(calls) < MaxCalls
    /\ update_op' = set_shard_replica_changes(update_op, changes)
    /\ calls' = Append(calls, Call("set_shard_replica_changes", Some(changes),
                                   None, FALSE))
    /\ UNCHANGED <<create_op, codecVars, replicaVars>>

CallTakeShardReplicaChanges ==
    /\ Len(calls) < MaxCalls
    /\ update_op' = take_shard_replica_changes(update_op).self
    /\ calls' = Append(calls, Call("take_shard_replica_changes", None,
                                   take_shard_replica_changes(update_op).result,
                                   FALSE))
    /\ UNCHANGED <<create_op, codecVars, replicaVars>>

CallHaveReplicaChanges ==
    /\ Len(calls) < MaxCalls
    /\ calls' = Append(calls, Call("have_replica_changes", None, None,
                                   have_replica_changes(update_op)))
    /\ UNCHANGED <<create_op, update_op, codecVars, replicaVars>>

(***************************************************************************)
(* Initial values of the variables a specification does not drive.         *)
(***************************************************************************)
OpsIdle ==
    /\ create_op = CreateCollectionOperation_new("docs", CreateCollection_minimal)
    /\ update_op = UpdateCollectionOperation_new_empty("docs")
    /\ calls = <<>>

CodecIdle ==
    /\ sent = None
    /\ wire = None
    /\ received = None
    /\ alias_in = None
    /\ alias_out = None

ReplicaIdle ==
    /\ replicas = <<>>
    /\ outcome = None

(***************************************************************************)
(* Spec: the create and the update operation of one collection after      *)
(* construction, then any calls.                                           *)
(***************************************************************************)
Init ==
    /\ \E n \in Names :
          /\ \E cc \in CreateCollections :
                 create_op = CreateCollectionOperation_new(n, cc)
          /\ \/ update_op = UpdateCollectionOperation_new_empty(n)
             \/ \E uc \in UpdateCollections :
                    update_op = UpdateCollectionOperation_new(n, uc)
    /\ calls = <<>>
    /\ CodecIdle
    /\ ReplicaIdle

Next ==
    \/ \E d \in Proposals : CallSetDistribution(d)
    \/ CallTakeDistribution
    \/ CallIsDistributionSet
    \/ \E changes \in ChangeLists : CallSetShardReplicaChanges(changes)
    \/ CallTakeShardReplicaChanges
    \/ CallHaveReplicaChanges

Spec == Init /\ [][Next]_vars

(***************************************************************************)
(* JSON values, Result, and serde's handling of the primitive types        *)
(***************************************************************************)
JNull == [k |-> "null"]
JBool(b) == [k |-> "bool", b |-> b]
JNum(n) == [k |-> "num", n |-> n]
JStr(s) == [k |-> "str", s |-> s]
JArr(a) == [k |-> "arr", a |-> a]
JObj(o) == [k |-> "obj", o |-> o]

Ok(v) == [ok |-> TRUE, v |-> v]
Err == [ok |-> FALSE]

enc_String(s) == JStr(s)
dec_String(j) == IF j.k = "str" THEN Ok(j.s) ELSE Err

enc_uint(n) == JNum(n)
dec_uint(j) == IF j.k = "num" /\ j.n >= 0 THEN Ok(j.n) ELSE Err

enc_bool(b) == JBool(b)
dec_bool(j) == IF j.k = "bool" THEN Ok(j.b) ELSE Err

\* Option<T>: None is null, Some(x) is x's encoding e.
enc_Option(o, e) == IF IsSome(o) THEN e ELSE JNull
\* r is the content's decoder applied to j.
dec_Option(j, r) ==
    IF j.k = "null" THEN Ok(None)
    ELSE IF r.ok THEN Ok(Some(r.v)) ELSE Err

\* Vec<T>: an array, element by element.  es are the elements' encodings,
\* rs the elements' decoder applied to each of Items(j).
Items(j) == IF j.k = "arr" THEN j.a ELSE <<>>
enc_Vec(es) == JArr(es)
dec_Vec(j, rs) ==
    IF j.k # "arr" THEN Err
    ELSE IF \A i \in DOMAIN rs : rs[i].ok
         THEN Ok([i \in DOMAIN rs |-> rs[i].v])
         ELSE Err

\* A field of a derived struct, read from the object j.  A field the object
\* does not carry reads as JMissing, which no decoder accepts: a missing
\* field is an error.  A missing Option field (or one marked serde(default))
\* is None.  Fields the struct does not name are ignored (no
\* deny_unknown_fields).  r is the field's decoder applied to Field(j, f).
JMissing == [k |-> "missing"]
Field(j, f) == IF f \in DOMAIN j.o THEN j.o[f] ELSE JMissing
OptField(j, f, r) ==
    IF f \in DOMAIN j.o THEN dec_Option(j.o[f], r) ELSE Ok(None)
\* An Option field with serde(alias): either name is read; both is an error.
\* ra is the field's decoder applied to Field(j, alias).
AliasedOptField(j, f, alias, r, ra) ==
    IF f \in DOMAIN j.o /\ alias \in DOMAIN j.o THEN Err
    ELSE IF alias \in DOMAIN j.o THEN dec_Option(j.o[alias], ra)
    ELSE OptField(j, f, r)

\* The opaque configurations of the collection and segment crates.
enc_Opaque(c) == JStr(c)
dec_Opaque(j) == IF j.k = "str" THEN Ok(j.s) ELSE Err

(***************************************************************************)
(* Alias operations                                                        *)
(***************************************************************************)
enc_CreateAlias(a) ==
    JObj([collection_name |-> enc_String(a.collection_name),
          alias_name |-> enc_String(a.alias_name)])
dec_CreateAlias(j) ==
    IF j.k # "obj" THEN Err
    ELSE LET c == dec_String(Field(j, "collection_name"))
             a == dec_String(Field(j, "alias_name"))
         IN  IF c.ok /\ a.ok
             THEN Ok([collection_name |-> c.v, alias_name |-> a.v])
             ELSE Err

enc_CreateAliasOperation(op) == JObj([create_alias |-> enc_CreateAlias(op.create_alias)])
dec_CreateAliasOperation(j) ==
    IF j.k # "obj" THEN Err
    ELSE LET r == dec_CreateAlias(Field(j, "create_alias"))
         IN  IF r.ok THEN Ok([create_alias |-> r.v]) ELSE Err

enc_DeleteAlias(a) == JObj([alias_name |-> enc_String(a.alias_name)])
dec_DeleteAlias(j) ==
    IF j.k # "obj" THEN Err
    ELSE LET a == dec_String(Field(j, "alias_name"))
         IN  IF a.ok THEN Ok([alias_name |-> a.v]) ELSE Err

enc_DeleteAliasOperation(op) == JObj([delete_alias |-> enc_DeleteAlias(op.delete_alias)])
dec_DeleteAliasOperation(j) ==
    IF j.k # "obj" THEN Err
    ELSE LET r == dec_DeleteAlias(Field(j, "delete_alias"))
         IN  IF r.ok THEN Ok([delete_alias |-> r.v]) ELSE Err

enc_RenameAlias(a) ==
    JObj([old_alias_name |-> enc_String(a.old_alias_name),
          new_alias_name |-> enc_String(a.new_alias_name)])
dec_RenameAlias(j) ==
    IF j.k # "obj" THEN Err
    ELSE LET o == dec_String(Field(j, "old_alias_name"))
             n == dec_String(Field(j, "new_alias_name"))
         IN  IF o.ok /\ n.ok
             THEN Ok([old_alias_name |-> o.v, new_alias_name |-> n.v])
             ELSE Err

enc_RenameAliasOperation(op) == JObj([rename_alias |-> enc_RenameAlias(op.rename_alias)])
dec_RenameAliasOperation(j) ==
    IF j.k # "obj" THEN Err
    ELSE LET r == dec_RenameAlias(Field(j, "rename_alias"))
         IN  IF r.ok THEN Ok([rename_alias |-> r.v]) ELSE Err

\* AliasOperations is serde(untagged): the value is written as its variant's
\* content, and read by trying the variants in their order of declaration,
\* the first that decodes winning.
AliasOp(variant, op) == [variant |-> variant, op |-> op]

From_CreateAlias(create_alias) ==
    AliasOp("CreateAlias", [create_alias |-> create_alias])
From_DeleteAlias(delete_alias) ==
    AliasOp("DeleteAlias", [delete_alias |-> delete_alias])
From_RenameAlias(rename_alias) ==
    AliasOp("RenameAlias", [rename_alias |-> rename_alias])

enc_AliasOperations(a) ==
    CASE a.variant = "CreateAlias" -> enc_CreateAliasOperation(a.op)
      [] a.variant = "DeleteAlias" -> enc_DeleteAliasOperation(a.op)
      [] a.variant = "RenameAlias" -> enc_RenameAliasOperation(a.op)

dec_AliasOperations(j) ==
    LET c == dec_CreateAliasOperation(j)
        d == dec_DeleteAliasOperation(j)
        r == dec_RenameAliasOperation(j)
    IN  IF c.ok THEN Ok(AliasOp("CreateAlias", c.v))
        ELSE IF d.ok THEN Ok(AliasOp("DeleteAlias", d.v))
        ELSE IF r.ok THEN Ok(AliasOp("RenameAlias", r.v))
        ELSE Err

enc_ChangeAliasesOperation(op) ==
    JObj([actions |->
              enc_Vec([i \in DOMAIN op.actions |-> enc_AliasOperations(op.actions[i])])])
dec_ChangeAliasesOperation(j) ==
    IF j.k # "obj" THEN Err
    ELSE LET a == Field(j, "actions")
             r == dec_Vec(a, [i \in DOMAIN Items(a) |->
                                 dec_AliasOperations(Items(a)[i])])
         IN  IF r.ok THEN Ok([actions |-> r.v]) ELSE Err

(***************************************************************************)
(* Collection operations                                                   *)
(***************************************************************************)
enc_InitFrom(i) == JObj([collection |-> enc_String(i.collection)])
dec_InitFrom(j) ==
    IF j.k # "obj" THEN Err
    ELSE LET c == dec_String(Field(j, "collection"))
         IN  IF c.ok THEN Ok([collection |-> c.v]) ELSE Err

enc_CreateCollection(c) ==
    JObj([vectors |-> enc_Opaque(c.vectors),
          shard_number |-> enc_Option(c.shard_number,
                  enc_uint(Unwrap(c.shard_number))),
          replication_factor |-> enc_Option(c.replication_factor,
                  enc_uint(Unwrap(c.replication_factor))),
          write_consistency_factor |->
              enc_Option(c.write_consistency_factor,
                      enc_uint(Unwrap(c.write_consistency_factor))),
          on_disk_payload |-> enc_Option(c.on_disk_payload,
                  enc_bool(Unwrap(c.on_disk_payload))),
          hnsw_config |-> enc_Option(c.hnsw_config,
                  enc_Opaque(Unwrap(c.hnsw_config))),
          wal_config |-> enc_Option(c.wal_config, enc_Opaque(Unwrap(c.wal_config))),
          optimizers_config |-> enc_Option(c.optimizers_config,
                  enc_Opaque(Unwrap(c.optimizers_config))),
          init_from |-> enc_Option(c.init_from, enc_InitFrom(Unwrap(c.init_from))),
          quantization_config |-> enc_Option(c.quantization_config,
                  enc_Opaque(Unwrap(c.quantization_config)))])
dec_CreateCollection(j) ==
    IF j.k # "obj" THEN Err
    ELSE LET v == dec_Opaque(Field(j, "vectors"))
             sn == OptField(j, "shard_number", dec_uint(Field(j, "shard_number")))
             rf == OptField(j, "replication_factor",
                     dec_uint(Field(j, "replication_factor")))
             wcf == OptField(j, "write_consistency_factor",
                     dec_uint(Field(j, "write_consistency_factor")))
             odp == OptField(j, "on_disk_payload",
                     dec_bool(Field(j, "on_disk_payload")))
             hnsw == OptField(j, "hnsw_config", dec_Opaque(Field(j, "hnsw_config")))
             wal == OptField(j, "wal_config", dec_Opaque(Field(j, "wal_config")))
             opt == AliasedOptField(j, "optimizers_config", "optimizer_config",
                                    dec_Opaque(Field(j, "optimizers_config")),
                                    dec_Opaque(Field(j, "optimizer_config")))
             from == OptField(j, "init_from", dec_InitFrom(Field(j, "init_from")))
             q == AliasedOptField(j, "quantization_config", "quantization",
                                    dec_Opaque(Field(j, "quantization_config")),
                                    dec_Opaque(Field(j, "quantization")))
         IN  IF /\ v.ok /\ sn.ok /\ rf.ok /\ wcf.ok /\ odp.ok
                /\ hnsw.ok /\ wal.ok /\ opt.ok /\ from.ok /\ q.ok
             THEN Ok([vectors |-> v.v, shard_number |-> sn.v,
                      replication_factor |-> rf.v,
                      write_consistency_factor |-> wcf.v,
                      on_disk_payload |-> odp.v, hnsw_config |-> hnsw.v,
                      wal_config |-> wal.v, optimizers_config |-> opt.v,
                      init_from |-> from.v, quantization_config |-> q.v])
             ELSE Err

\* ShardDistributionProposal { distribution: Vec<(ShardId, Vec<PeerId>)> }
enc_PeerIds(v) == enc_Vec([i \in DOMAIN v |-> enc_uint(v[i])])
dec_PeerIds(j) == dec_Vec(j, [i \in DOMAIN Items(j) |-> dec_uint(Items(j)[i])])

enc_ShardPlacement(e) == JArr(<<enc_uint(e.shard_id), enc_PeerIds(e.peers)>>)
enc_ShardDistributionProposal(p) ==
    JObj([distribution |->
              enc_Vec([i \in DOMAIN p.distribution |->
                          enc_ShardPlacement(p.distribution[i])])])
dec_ShardPlacement(j) ==
    IF j.k # "arr" THEN Err
    ELSE IF Len(j.a) # 2 THEN Err
    ELSE LET s == dec_uint(j.a[1])
             ps == dec_PeerIds(j.a[2])
         IN  IF s.ok /\ ps.ok THEN Ok([shard_id |-> s.v, peers |-> ps.v]) ELSE Err
dec_ShardDistributionProposal(j) ==
    IF j.k # "obj" THEN Err
    ELSE LET a == Field(j, "distribution")
             d == dec_Vec(a, [i \in DOMAIN Items(a) |->
                                 dec_ShardPlacement(Items(a)[i])])
         IN  IF d.ok THEN Ok([distribution |-> d.v]) ELSE Err

\* Variant: the private distribution slot is not written (serde(skip)).
enc_CreateCollectionOperation_skip(op) ==
    JObj([collection_name |-> enc_String(op.collection_name),
          create_collection |-> enc_CreateCollection(op.create_collection)])

\* The derived Serialize writes every field of the struct, the private
\* distribution slot included.
enc_CreateCollectionOperation(op) ==
    JObj([collection_name |-> enc_String(op.collection_name),
          create_collection |-> enc_CreateCollection(op.create_collection),
          distribution |->
              enc_Option(op.distribution,
                      enc_ShardDistributionProposal(Unwrap(op.distribution)))])
dec_CreateCollectionOperation(j) ==
    IF j.k # "obj" THEN Err
    ELSE LET n == dec_String(Field(j, "collection_name"))
             c == dec_CreateCollection(Field(j, "create_collection"))
             d == OptField(j, "distribution",
                     dec_ShardDistributionProposal(Field(j, "distribution")))
         IN  IF n.ok /\ c.ok /\ d.ok
             THEN Ok([collection_name |-> n.v, create_collection |-> c.v,
                      distribution |-> d.v])
             ELSE Err

enc_UpdateCollection(u) ==
    JObj([optimizers_config |-> enc_Option(u.optimizers_config,
            enc_Opaque(Unwrap(u.optimizers_config))),
          params |-> enc_Option(u.params, enc_Opaque(Unwrap(u.params)))])
dec_UpdateCollection(j) ==
    IF j.k # "obj" THEN Err
    ELSE LET opt == AliasedOptField(j, "optimizers_config", "optimizer_config",
                                    dec_Opaque(Field(j, "optimizers_config")),
                                    dec_Opaque(Field(j, "optimizer_config")))
             p == OptField(j, "params", dec_Opaque(Field(j, "params")))
         IN  IF opt.ok /\ p.ok
             THEN Ok([optimizers_config |-> opt.v, params |-> p.v])
             ELSE Err

\* replica_set::Change::Remove(ShardId, PeerId)
enc_Change(c) == JObj([Remove |-> JArr(<<enc_uint(c.shard_id),
        enc_uint(c.peer_id)>>)])
dec_Change(j) ==
    IF j.k # "obj" THEN Err
    ELSE IF DOMAIN j.o # {"Remove"} THEN Err
    ELSE IF j.o["Remove"].k # "arr" THEN Err
    ELSE IF Len(j.o["Remove"].a) # 2 THEN Err
    ELSE LET s == dec_uint(j.o["Remove"].a[1])
             p == dec_uint(j.o["Remove"].a[2])
         IN  IF s.ok /\ p.ok THEN Ok([shard_id |-> s.v, peer_id |-> p.v]) ELSE Err

enc_Changes(v) == enc_Vec([i \in DOMAIN v |-> enc_Change(v[i])])
dec_Changes(j) == dec_Vec(j, [i \in DOMAIN Items(j) |-> dec_Change(Items(j)[i])])

enc_UpdateCollectionOperation(op) ==
    JObj([collection_name |-> enc_String(op.collection_name),
          update_collection |-> enc_UpdateCollection(op.update_collection),
          shard_replica_changes |->
              enc_Option(op.shard_replica_changes,
                         enc_Changes(Unwrap(op.shard_replica_changes)))])
dec_UpdateCollectionOperation(j) ==
    IF j.k # "obj" THEN Err
    ELSE LET n == dec_String(Field(j, "collection_name"))
             u == dec_UpdateCollection(Field(j, "update_collection"))
             c == OptField(j, "shard_replica_changes",
                           dec_Changes(Field(j, "shard_replica_changes")))
         IN  IF n.ok /\ u.ok /\ c.ok
             THEN Ok([collection_name |-> n.v, update_collection |-> u.v,
                      shard_replica_changes |-> c.v])
             ELSE Err

\* DeleteCollectionOperation(pub String): a newtype, written as its field.
DeleteCollectionOperation(name) == [f0 |-> name]
enc_DeleteCollectionOperation(op) == enc_String(op.f0)
dec_DeleteCollectionOperation(j) ==
    LET n == dec_String(j) IN IF n.ok THEN Ok([f0 |-> n.v]) ELSE Err

(***************************************************************************)
(* Shard transfers and replica states                                      *)
(***************************************************************************)
ReplicaStates == {"Active", "Dead", "Initializing", "Listener"}

enc_ReplicaState(s) == JStr(s)
dec_ReplicaState(j) ==
    IF j.k = "str" /\ j.s \in ReplicaStates THEN Ok(j.s) ELSE Err

enc_ShardTransfer(t) ==
    JObj([shard_id |-> enc_uint(t.shard_id), from |-> enc_uint(t.from),
          to |-> enc_uint(t.to), sync |-> enc_bool(t.sync)])
dec_ShardTransfer(j) ==
    IF j.k # "obj" THEN Err
    ELSE LET s == dec_uint(Field(j, "shard_id"))
             f == dec_uint(Field(j, "from"))
             t == dec_uint(Field(j, "to"))
             y == dec_bool(Field(j, "sync"))
         IN  IF s.ok /\ f.ok /\ t.ok /\ y.ok
             THEN Ok([shard_id |-> s.v, from |-> f.v, to |-> t.v, sync |-> y.v])
             ELSE Err

enc_ShardTransferKey(t) ==
    JObj([shard_id |-> enc_uint(t.shard_id), from |-> enc_uint(t.from),
          to |-> enc_uint(t.to)])
dec_ShardTransferKey(j) ==
    IF j.k # "obj" THEN Err
    ELSE LET s == dec_uint(Field(j, "shard_id"))
             f == dec_uint(Field(j, "from"))
             t == dec_uint(Field(j, "to"))
         IN  IF s.ok /\ f.ok /\ t.ok
             THEN Ok([shard_id |-> s.v, from |-> f.v, to |-> t.v])
             ELSE Err

\* ShardTransferOperations: externally tagged, the variant names as written.
TransferOp(variant, v) == [variant |-> variant, v |-> v]

enc_ShardTransferOperations(op) ==
    CASE op.variant = "Start" -> JObj([Start |-> enc_ShardTransfer(op.v)])
      [] op.variant = "Finish" -> JObj([Finish |-> enc_ShardTransfer(op.v)])
      [] op.variant = "Abort" ->
             JObj([Abort |-> JObj([transfer |-> enc_ShardTransferKey(op.v.transfer),
                                   reason |-> enc_String(op.v.reason)])])

dec_Abort(j) ==
    IF j.k # "obj" THEN Err
    ELSE LET t == dec_ShardTransferKey(Field(j, "transfer"))
             r == dec_String(Field(j, "reason"))
         IN  IF t.ok /\ r.ok THEN Ok([transfer |-> t.v, reason |-> r.v]) ELSE Err

\* The payload of a variant, decoded by dec, as the variant's value.
Tagged(variant, r) == IF r.ok THEN Ok([variant |-> variant, v |-> r.v]) ELSE Err

\* An externally tagged enum is an object of exactly one key.
IsSingleKey(j) == j.k = "obj" /\ Cardinality(DOMAIN j.o) = 1
TheKey(j) == CHOOSE f \in DOMAIN j.o : TRUE

dec_ShardTransferOperations(j) ==
    IF ~ IsSingleKey(j) THEN Err
    ELSE CASE TheKey(j) = "Start" -> Tagged("Start",
            dec_ShardTransfer(j.o["Start"]))
           [] TheKey(j) = "Finish" -> Tagged("Finish",
                   dec_ShardTransfer(j.o["Finish"]))
           [] TheKey(j) = "Abort" -> Tagged("Abort", dec_Abort(j.o["Abort"]))
           [] OTHER -> Err

SetShardReplicaState(collection_name, shard_id, peer_id, state, from_state) ==
    [collection_name |-> collection_name, shard_id |-> shard_id,
     peer_id |-> peer_id, state |-> state, from_state |-> from_state]

enc_SetShardReplicaState(op) ==
    JObj([collection_name |-> enc_String(op.collection_name),
          shard_id |-> enc_uint(op.shard_id),
          peer_id |-> enc_uint(op.peer_id),
          state |-> enc_ReplicaState(op.state),
          from_state |-> enc_Option(op.from_state,
                  enc_ReplicaState(Unwrap(op.from_state)))])
dec_SetShardReplicaState(j) ==
    IF j.k # "obj" THEN Err
    ELSE LET n == dec_String(Field(j, "collection_name"))
             s == dec_uint(Field(j, "shard_id"))
             p == dec_uint(Field(j, "peer_id"))
             st == dec_ReplicaState(Field(j, "state"))
             fs == OptField(j, "from_state",
                     dec_ReplicaState(Field(j, "from_state")))
         IN  IF n.ok /\ s.ok /\ p.ok /\ st.ok /\ fs.ok
             THEN Ok(SetShardReplicaState(n.v, s.v, p.v, st.v, fs.v))
             ELSE Err

(***************************************************************************)
(* CollectionMetaOperations: externally tagged, the variant names in       *)
(* snake_case.                                                             *)
(***************************************************************************)
MetaOp(variant, v) == [variant |-> variant, v |-> v]

enc_TransferShard(v) ==
    JArr(<<enc_String(v.collection_id), enc_ShardTransferOperations(v.op)>>)
dec_TransferShard(j) ==
    IF j.k # "arr" THEN Err
    ELSE IF Len(j.a) # 2 THEN Err
    ELSE LET c == dec_String(j.a[1])
             o == dec_ShardTransferOperations(j.a[2])
         IN  IF c.ok /\ o.ok THEN Ok([collection_id |-> c.v, op |-> o.v]) ELSE Err

enc_Nop(v) == JObj([token |-> enc_uint(v.token)])
dec_Nop(j) ==
    IF j.k # "obj" THEN Err
    ELSE LET t == dec_uint(Field(j, "token"))
         IN  IF t.ok THEN Ok([token |-> t.v]) ELSE Err

enc_CollectionMetaOperations(m) ==
    CASE m.variant = "CreateCollection" ->
             JObj([create_collection |-> enc_CreateCollectionOperation(m.v)])
      [] m.variant = "UpdateCollection" ->
             JObj([update_collection |-> enc_UpdateCollectionOperation(m.v)])
      [] m.variant = "DeleteCollection" ->
             JObj([delete_collection |-> enc_DeleteCollectionOperation(m.v)])
      [] m.variant = "ChangeAliases" ->
             JObj([change_aliases |-> enc_ChangeAliasesOperation(m.v)])
      [] m.variant = "TransferShard" ->
             JObj([transfer_shard |-> enc_TransferShard(m.v)])
      [] m.variant = "SetShardReplicaState" ->
             JObj([set_shard_replica_state |-> enc_SetShardReplicaState(m.v)])
      [] m.variant = "Nop" -> JObj([nop |-> enc_Nop(m.v)])

dec_CollectionMetaOperations(j) ==
    IF ~ IsSingleKey(j) THEN Err
    ELSE LET body == j.o[TheKey(j)] IN
         CASE TheKey(j) = "create_collection" ->
                  Tagged("CreateCollection", dec_CreateCollectionOperation(body))
           [] TheKey(j) = "update_collection" ->
                  Tagged("UpdateCollection", dec_UpdateCollectionOperation(body))
           [] TheKey(j) = "delete_collection" ->
                  Tagged("DeleteCollection", dec_DeleteCollectionOperation(body))
           [] TheKey(j) = "change_aliases" ->
                  Tagged("ChangeAliases", dec_ChangeAliasesOperation(body))
           [] TheKey(j) = "transfer_shard" ->
                  Tagged("TransferShard", dec_TransferShard(body))
           [] TheKey(j) = "set_shard_replica_state" ->
                  Tagged("SetShardReplicaState", dec_SetShardReplicaState(body))
           [] TheKey(j) = "nop" -> Tagged("Nop", dec_Nop(body))
           [] OTHER -> Err

(***************************************************************************)
(* The values encoded and the payloads decoded                             *)
(***************************************************************************)
MaxActions == 2

AliasActions ==
    { From_CreateAlias([collection_name |-> "docs", alias_name |-> "a1"]),
      From_DeleteAlias([alias_name |-> "a1"]),
      From_RenameAlias([old_alias_name |-> "a1", new_alias_name |-> "a2"]) }

ActionLists == UNION { [1..n -> AliasActions] : n \in 0..MaxActions }

Transfers ==
    { [shard_id |-> 3, from |-> 1, to |-> 2, sync |-> FALSE],
      [shard_id |-> 3, from |-> 2, to |-> 1, sync |-> TRUE] }

TransferOps ==
    { TransferOp("Start", t) : t \in Transfers }
    \cup { TransferOp("Finish", t) : t \in Transfers }
    \cup { TransferOp("Abort", [transfer |-> [shard_id |-> t.shard_id,
                                              from |-> t.from, to |-> t.to],
                                reason |-> "transfer failed"]) : t \in Transfers }

ShardIds == {0}
PeerIds == {1, 2}

SetShardReplicaStateOps ==
    { SetShardReplicaState(q[1], q[2], q[3], q[4], q[5]) :
        q \in {"docs"} \X ShardIds \X PeerIds \X ReplicaStates
               \X ({None} \cup { Some(s) : s \in ReplicaStates }) }

\* Every CreateCollectionOperation and UpdateCollectionOperation the methods
\* can produce from the constructors.
CreateCollectionOperations ==
    LET fresh == { CreateCollectionOperation_new(q[1], q[2]) :
                       q \in Names \X CreateCollections }
    IN  fresh \cup { set_distribution(q[1], q[2]) : q \in fresh \X Proposals }

UpdateCollectionOperations ==
    LET fresh == { UpdateCollectionOperation_new(q[1], q[2]) :
                       q \in Names \X UpdateCollections }
    IN  { set_shard_replica_changes(q[1], q[2]) : q \in fresh \X ChangeLists }

MetaOps ==
    { MetaOp("CreateCollection", op) : op \in CreateCollectionOperations }
    \cup { MetaOp("UpdateCollection", op) : op \in UpdateCollectionOperations }
    \cup { MetaOp("DeleteCollection", DeleteCollectionOperation(n)) : n \in Names }
    \cup { MetaOp("ChangeAliases", [actions |-> l]) : l \in ActionLists }
    \cup { MetaOp("TransferShard", [collection_id |-> q[1], op |-> q[2]]) :
               q \in Names \X TransferOps }
    \cup { MetaOp("SetShardReplicaState", op) : op \in SetShardReplicaStateOps }
    \cup { MetaOp("Nop", [token |-> t]) : t \in {0, 7} }

\* Alias action payloads: an object that carries, for each of the three shape
\* keys and for a key no shape has, nothing, a well-formed body, a malformed
\* one or null.
ShapeKeys == {"create_alias", "delete_alias", "rename_alias"}
PayloadKeys == ShapeKeys \cup {"drop_alias"}

PayloadBody(f, choice) ==
    CASE f = "create_alias" /\ choice = "good" ->
             enc_CreateAlias([collection_name |-> "docs", alias_name |-> "a1"])
      [] f = "create_alias" /\ choice = "bad" -> JObj([alias_name |-> JStr("a1")])
      [] f = "delete_alias" /\ choice = "good" ->
             enc_DeleteAlias([alias_name |-> "a1"])
      [] f = "delete_alias" /\ choice = "bad" -> JStr("a1")
      [] f = "rename_alias" /\ choice = "good" ->
             enc_RenameAlias([old_alias_name |-> "a1", new_alias_name |-> "a2"])
      [] f = "rename_alias" /\ choice = "bad" ->
             JObj([old_alias_name |-> JStr("a1"), new_alias_name |-> JNull])
      [] f = "drop_alias" /\ choice = "good" ->
             enc_DeleteAlias([alias_name |-> "a2"])
      [] f = "drop_alias" /\ choice = "bad" -> JNum(0)
      [] choice = "null" -> JNull

AliasPayloads ==
    { JObj([f \in { g \in PayloadKeys : ch[g] # "absent" } |-> PayloadBody(f, ch[f])]) :
        ch \in [PayloadKeys -> {"absent", "good", "bad", "null"}] }

(***************************************************************************)
(* SpecCodec: values are encoded and the payload decoded.                  *)
(* SpecAlias: alias action payloads arrive from outside and are decoded.   *)
(***************************************************************************)
Encode(m) ==
    /\ sent' = Some(m)
    /\ wire' = Some(enc_CollectionMetaOperations(m))
    /\ received' = None
    /\ UNCHANGED <<alias_in, alias_out, opsVars, replicaVars>>

Decode ==
    /\ IsSome(wire)
    /\ received' = Some(dec_CollectionMetaOperations(Unwrap(wire)))
    /\ wire' = None
    /\ UNCHANGED <<sent, alias_in, alias_out, opsVars, replicaVars>>

DecodeAliasAction(p) ==
    /\ alias_in' = Some(p)
    /\ alias_out' = Some(dec_AliasOperations(p))
    /\ UNCHANGED <<sent, wire, received, opsVars, replicaVars>>

InitCodec == OpsIdle /\ CodecIdle /\ ReplicaIdle

NextCodec ==
    \/ \E m \in MetaOps : Encode(m)
    \/ Decode

SpecCodec == InitCodec /\ [][NextCodec]_vars

NextAlias == \E p \in AliasPayloads : DecodeAliasAction(p)

SpecAlias == InitCodec /\ [][NextAlias]_vars

(***************************************************************************)
(* SpecReplica: the applier of SetShardReplicaState.  A from_state that    *)
(* does not match the replica's state dismisses the operation.             *)
(***************************************************************************)
ReplicaKeys == {"docs"} \X ShardIds \X PeerIds
ReplicaKey(op) == <<op.collection_name, op.shard_id, op.peer_id>>

\* Variant: from_state is not looked at.
apply_SetShardReplicaState_unconditional(rs, op) ==
    [replicas |-> [rs EXCEPT ![ReplicaKey(op)] = op.state], result |-> "applied"]

apply_SetShardReplicaState(rs, op) ==
    IF IsSome(op.from_state) /\ Unwrap(op.from_state) # rs[ReplicaKey(op)]
    THEN [replicas |-> rs, result |-> "dismissed"]
    ELSE [replicas |-> [rs EXCEPT ![ReplicaKey(op)] = op.state],
          result |-> "applied"]

ApplySetShardReplicaState(op) ==
    /\ replicas' = apply_SetShardReplicaState(replicas, op).replicas
    /\ outcome' = Some([op |-> op,
                        before |-> replicas[ReplicaKey(op)],
                        result |-> apply_SetShardReplicaState(replicas, op).result])
    /\ UNCHANGED <<opsVars, codecVars>>

InitReplica ==
    /\ replicas = [key \in ReplicaKeys |-> "Initializing"]
    /\ outcome = None
    /\ OpsIdle
    /\ CodecIdle

NextReplica == \E op \in SetShardReplicaStateOps : ApplySetShardReplicaState(op)

SpecReplica == InitReplica /\ [][NextReplica]_vars

(***************************************************************************)
(* Reading the history                                                     *)
(***************************************************************************)
DistributionMutators == {"set_distribution", "take_distribution"}
ReplicaChangeMutators == {"set_shard_replica_changes", "take_shard_replica_changes"}
Observers == {"is_distribution_set", "have_replica_changes"}

\* The index of the last call before position j whose name is in ops, or 0.
LastBefore(j, ops) ==
    LET S == { i \in 1..(j - 1) : calls[i].op \in ops }
    IN  IF S = {} THEN 0 ELSE CHOOSE i \in S : \A k \in S : k <= i

\* The slot was empty when call i was made.
DistributionEmptyAt(i) ==
    LET m == LastBefore(i, DistributionMutators)
    IN  m = 0 \/ calls[m].op = "take_distribution"

\* No take_distribution was made at the positions i+1 .. j-1.
NoTakeBetween(i, j) ==
    \A k \in (i + 1)..(j - 1) : calls[k].op # "take_distribution"

\* C1: a take_distribution that follows set_distribution(d) returns d; a
\* take_distribution that follows another take_distribution with no
\* set_distribution in between returns none, and is_distribution_set is false
\* from a take until the next set_distribution.
C1_SetThenTakeOnce ==
    /\ \A j \in 1..Len(calls) :
          LET m == LastBefore(j, DistributionMutators) IN
          /\ (calls[j].op = "take_distribution" /\ m > 0
                  /\ calls[m].op = "set_distribution")
                 => calls[j].out = calls[m].arg
          /\ (calls[j].op = "take_distribution" /\ m > 0
                  /\ calls[m].op = "take_distribution")
                 => calls[j].out = None
          /\ (calls[j].op = "is_distribution_set" /\ m > 0
                  /\ calls[m].op = "take_distribution")
                 => calls[j].flag = FALSE
    /\ LET m == LastBefore(Len(calls) + 1, DistributionMutators) IN
          (m > 0 /\ calls[m].op = "take_distribution")
              => /\ ~ is_distribution_set(create_op)
                 /\ take_distribution(create_op).result = None

C1_Witness ==
    \E j \in 2..(Len(calls) - 1) :
        /\ calls[j - 1].op = "set_distribution"
        /\ calls[j].op = "take_distribution"
        /\ calls[j].out = calls[j - 1].arg
        /\ calls[j + 1].op = "take_distribution"
        /\ calls[j + 1].out = None
        /\ ~ is_distribution_set(create_op)

\* C2: set_distribution is fill-once: the slot holds, and the next
\* take_distribution returns, the proposal of the first set_distribution made
\* while the slot was empty, whatever set_distribution calls followed it.
C2_FillOnce ==
    \A i \in 1..Len(calls) :
        (calls[i].op = "set_distribution" /\ DistributionEmptyAt(i))
            => /\ NoTakeBetween(i, Len(calls) + 1)
                      => create_op.distribution = calls[i].arg
               /\ \A j \in (i + 1)..Len(calls) :
                      (calls[j].op = "take_distribution" /\ NoTakeBetween(i, j))
                          => calls[j].out = calls[i].arg

\* C3: after set_shard_replica_changes(empty list), whatever the slot held,
\* have_replica_changes is false and take_shard_replica_changes returns none.
C3_EmptySetIsAbsent ==
    /\ \A j \in 1..Len(calls) :
          LET m == LastBefore(j, ReplicaChangeMutators) IN
          (m > 0 /\ calls[m].op = "set_shard_replica_changes"
                 /\ calls[m].arg = Some(<<>>))
              => /\ calls[j].op = "have_replica_changes" => calls[j].flag = FALSE
                 /\ calls[j].op = "take_shard_replica_changes"
                        => calls[j].out = None
    /\ LET m == LastBefore(Len(calls) + 1, ReplicaChangeMutators) IN
          (m > 0 /\ calls[m].op = "set_shard_replica_changes"
                 /\ calls[m].arg = Some(<<>>))
              => /\ ~ have_replica_changes(update_op)
                 /\ take_shard_replica_changes(update_op).result = None

C3_Witness ==
    \E j \in 2..(Len(calls) - 1) :
        /\ calls[j - 1].op = "set_shard_replica_changes"
        /\ calls[j - 1].arg # Some(<<>>)
        /\ calls[j].op = "set_shard_replica_changes"
        /\ calls[j].arg = Some(<<>>)
        /\ calls[j + 1].op = "take_shard_replica_changes"
        /\ calls[j + 1].out = None

\* C4: the shard_replica_changes slot is never present-but-empty, so
\* have_replica_changes is true exactly when the slot is present.
C4_NeverPresentButEmpty ==
    /\ update_op.shard_replica_changes # Some(<<>>)
    /\ have_replica_changes(update_op) <=> IsSome(update_op.shard_replica_changes)

C4_Witness ==
    /\ \E i \in 1..Len(calls) :
          /\ calls[i].op = "set_shard_replica_changes"
          /\ calls[i].arg = Some(<<>>)
    /\ \E i \in 1..Len(calls) : calls[i].op = "take_shard_replica_changes"
    /\ IsSome(update_op.shard_replica_changes)
    /\ have_replica_changes(update_op)

\* C5: the take_shard_replica_changes that follows set_shard_replica_changes(L),
\* L non-empty, returns L in the same order; from then until the next set,
\* have_replica_changes is false and take_shard_replica_changes returns none.
C5_TakeChangesOnce ==
    /\ \A j \in 1..Len(calls) :
          LET m == LastBefore(j, ReplicaChangeMutators) IN
          /\ (calls[j].op = "take_shard_replica_changes" /\ m > 0
                  /\ calls[m].op = "set_shard_replica_changes"
                  /\ calls[m].arg # Some(<<>>))
                 => calls[j].out = calls[m].arg
          /\ (m > 0 /\ calls[m].op = "take_shard_replica_changes")
                 => /\ calls[j].op = "take_shard_replica_changes"
                           => calls[j].out = None
                    /\ calls[j].op = "have_replica_changes"
                           => calls[j].flag = FALSE
    /\ LET m == LastBefore(Len(calls) + 1, ReplicaChangeMutators) IN
          (m > 0 /\ calls[m].op = "take_shard_replica_changes")
              => /\ ~ have_replica_changes(update_op)
                 /\ take_shard_replica_changes(update_op).result = None

C5_Witness ==
    \E j \in 2..(Len(calls) - 1) :
        /\ calls[j - 1].op = "set_shard_replica_changes"
        /\ Len(Unwrap(calls[j - 1].arg)) = 2
        /\ calls[j].op = "take_shard_replica_changes"
        /\ calls[j].out = calls[j - 1].arg
        /\ calls[j + 1].op = "take_shard_replica_changes"
        /\ calls[j + 1].out = None

\* A step that makes a call of one of the two observers.
ObserverStep ==
    /\ Len(calls') = Len(calls) + 1
    /\ calls'[Len(calls')].op \in Observers

\* C9: a call of is_distribution_set or have_replica_changes changes no field
\* of either operation, and is_distribution_set returns true exactly when a
\* set_distribution was made with no take_distribution after it.
C9_PureObservers ==
    /\ [](\A j \in 1..Len(calls) :
             calls[j].op = "is_distribution_set"
                 => LET m == LastBefore(j, DistributionMutators) IN
                    calls[j].flag
                        <=> (m > 0 /\ calls[m].op = "set_distribution"))
    /\ [](LET m == LastBefore(Len(calls) + 1, DistributionMutators) IN
             is_distribution_set(create_op)
                 <=> (m > 0 /\ calls[m].op = "set_distribution"))
    /\ [][ObserverStep => (create_op' = create_op /\ update_op' = update_op)]_vars

C9_Witness ==
    /\ \E j \in 1..Len(calls) :
          calls[j].op = "is_distribution_set" /\ calls[j].flag
    /\ \E j \in 1..Len(calls) :
          calls[j].op = "is_distribution_set" /\ ~ calls[j].flag
    /\ \E j \in 1..Len(calls) : calls[j].op = "have_replica_changes"

\* C10: no call changes collection_name or create_collection of the
\* CreateCollectionOperation, nor collection_name or update_collection of the
\* UpdateCollectionOperation.
C10_SlotOnly ==
    [][/\ create_op'.collection_name = create_op.collection_name
       /\ create_op'.create_collection = create_op.create_collection
       /\ update_op'.collection_name = update_op.collection_name
       /\ update_op'.update_collection = update_op.update_collection]_vars

C10_Witness ==
    /\ \A op \in DistributionMutators \cup ReplicaChangeMutators :
          \E j \in 1..Len(calls) : calls[j].op = op
    /\ update_op.update_collection # UpdateCollection_empty
    /\ create_op.create_collection.shard_number = Some(4)

\* The shapes a payload matches: those whose key it carries with a body that
\* decodes.
MatchedShapes(j) ==
    { f \in ShapeKeys :
        CASE f = "create_alias" -> dec_CreateAliasOperation(j).ok
          [] f = "delete_alias" -> dec_DeleteAliasOperation(j).ok
          [] f = "rename_alias" -> dec_RenameAliasOperation(j).ok }

\* C6: an alias action payload is decoded only when it matches exactly one of
\* the shapes create_alias / delete_alias / rename_alias; a payload that
\* matches none, or two or more at once, is rejected.
C6_ExactlyOneShape ==
    IsSome(alias_out)
        => LET shapes == MatchedShapes(Unwrap(alias_in))
           IN  /\ Unwrap(alias_out).ok => Cardinality(shapes) = 1
               /\ Cardinality(shapes) # 1 => ~ Unwrap(alias_out).ok

\* C7: decoding the encoding of a CollectionMetaOperations value yields the
\* value, with the same variant.
C7_RoundTrip ==
    IsSome(received)
        => /\ Unwrap(received).ok
           /\ Unwrap(received).v.variant = Unwrap(sent).variant
           /\ Unwrap(received).v = Unwrap(sent)

C7_Witness ==
    /\ IsSome(received)
    /\ Unwrap(received).ok
    /\ Unwrap(sent).variant = "ChangeAliases"
    /\ Len(Unwrap(sent).v.actions) = 2
    /\ Unwrap(sent).v.actions[1].variant = "RenameAlias"
    /\ Unwrap(sent).v.actions[2].variant = "DeleteAlias"
    /\ Unwrap(received).v = Unwrap(sent)

\* C8: SetShardReplicaState is a compare-and-set: with a from_state that
\* differs from the replica's state the operation is dismissed and the state
\* unchanged; otherwise the replica's state becomes `state`.
C8_CompareAndSet ==
    IsSome(outcome)
        => LET o == Unwrap(outcome) IN
           IF IsSome(o.op.from_state) /\ Unwrap(o.op.from_state) # o.before
           THEN /\ replicas[ReplicaKey(o.op)] = o.before
                /\ o.result = "dismissed"
           ELSE /\ replicas[ReplicaKey(o.op)] = o.op.state
                /\ o.result = "applied"

C8_Witness ==
    /\ IsSome(outcome)
    /\ Unwrap(outcome).op.state = "Active"
    /\ Unwrap(outcome).op.from_state = Some("Active")
    /\ Unwrap(outcome).before = "Dead"
    /\ Unwrap(outcome).result = "dismissed"
    /\ replicas[ReplicaKey(Unwrap(outcome).op)] = "Dead"

====
